---- MODULE Spec2Model ----
(***************************************************************************)
(* A model of src/wikistats.py: the monthly pipeline (process_month), the  *)
(* yearly loop and aggregation (main, mode '1'), the single-month run      *)
(* (main, mode '2') and the table renderer (generate_wiki_markup).         *)
(*                                                                         *)
(* A pandas DataFrame is a record [columns, rows]; a row carries its index *)
(* label, its article and its views.  An article name is modelled by its   *)
(* rank in lexicographic order (groupby orders its groups by name).  The   *)
(* textual part of a rendered row (underscores, the Luokka: prefix, the    *)
(* thousands separator, lines 38-44) is left out: a rendered row is        *)
(* [rank, article, views].                                                 *)
(***************************************************************************)
EXTENDS Integers, Sequences, FiniteSets, TLC

\* ---------------------------------------------------------------- bounds

\* Months of the yearly loop: max_month ranges over 1..MaxMonth (12 in the code).
MaxMonth == 2
\* Longest article list one fetch returns.
MaxLen == 2
\* Longest frame handed directly to the renderer in SpecRender.
MaxRows == 3
\* The cut-off of head(1000) (lines 77 and 121), scaled down so that lists
\* longer than the cut-off are reachable.
Limit == 1

\* Article names, by lexicographic rank.
Articles == {1, 2}
\* View counts.
Views == {1, 2, 3}

\* numpy's quicksort (the default kind of sort_values) leaves the relative
\* order of equal keys unspecified; a given build is deterministic.  A build
\* either keeps equal keys in input order or reverses them.
Kinds == {"stable", "reversed"}

VARIABLES
    kind,        \* the tie order of this build's sort
    mode,        \* "1" whole year, "2" single month (line 95)
    max_month,   \* line 106
    month,       \* the loop variable of line 108
    pc,          \* "loop", "single", "done", "raised"; "render*" in SpecRender
    all_data,    \* line 104: the frames of the months processed so far
    aggregated,  \* line 118
    files,       \* the file system: path -> rendered table
    stdout,      \* the messages printed
    exc,         \* the exception that left main, "None" if none
    fetched,     \* history: the outcome of every fetch, in order
    appended,    \* history: the months whose frame was appended to all_data
    saves,       \* history: the paths save_to_file was called with
    df_arg,      \* SpecRender: the frame given to the renderer
    markup       \* SpecRender: what the renderer returned

vars == <<kind, mode, max_month, month, pc, all_data, aggregated, files, stdout,
          exc, fetched, appended, saves, df_arg, markup>>

\* ------------------------------------------------------------ data frames

Row(i, a, v) == [index |-> i, article |-> a, views |-> v]

Cols == {"article", "views"}

\* pd.DataFrame(monthly_data): the columns are the keys of the records, so a
\* frame built from an empty list has no columns at all.
DataFrame(records) ==
    [columns |-> IF records = <<>> THEN {} ELSE Cols,
     rows    |-> [i \in 1..Len(records) |->
                     Row(i - 1, records[i].article, records[i].views)]]

\* A frame with the two columns and no rows (what head(0) or a filter leaves).
EmptyWithColumns == [columns |-> Cols, rows |-> <<>>]

empty(df) == df.rows = <<>> \/ df.columns = {}

head(df, n) ==
    [columns |-> df.columns,
     rows    |-> IF Len(df.rows) <= n THEN df.rows ELSE SubSeq(df.rows, 1, n)]

\* Whether the row at position i goes before the row at position j.
Before(rows, i, j, k) ==
    \/ rows[i].views > rows[j].views
    \/ /\ rows[i].views = rows[j].views
       /\ IF k = "stable" THEN i < j ELSE i > j

\* The place the sort gives the row at position i.
Place(rows, i, k) ==
    1 + Cardinality({j \in 1..Len(rows) : Before(rows, j, i, k)})

sort_values_ascending(df, k) ==
    [columns |-> df.columns,
     rows    |-> [p \in 1..Len(df.rows) |->
                     df.rows[CHOOSE i \in 1..Len(df.rows) :
                                Place(df.rows, i, k) = Len(df.rows) + 1 - p]]]

\* df.sort_values('views', ascending=False) on a frame that has the column;
\* the index labels travel with the rows.
sort_values(df, k) ==
    [columns |-> df.columns,
     rows    |-> [p \in 1..Len(df.rows) |->
                     df.rows[CHOOSE i \in 1..Len(df.rows) :
                                Place(df.rows, i, k) = p]]]

reset_index(df) ==
    [columns |-> df.columns,
     rows    |-> [i \in 1..Len(df.rows) |->
                     Row(i - 1, df.rows[i].article, df.rows[i].views)]]

RECURSIVE concat(_)
concat(frames) ==
    IF frames = <<>> THEN [columns |-> {}, rows |-> <<>>]
    ELSE LET rest == concat(Tail(frames))
         IN  [columns |-> Head(frames).columns \cup rest.columns,
              rows    |-> Head(frames).rows \o rest.rows]

RECURSIVE SumViews(_, _)
SumViews(rows, a) ==
    IF rows = <<>> THEN 0
    ELSE (IF Head(rows).article = a THEN Head(rows).views ELSE 0)
         + SumViews(Tail(rows), a)

FirstViews(rows, a) ==
    rows[CHOOSE i \in 1..Len(rows) :
            /\ rows[i].article = a
            /\ \A j \in 1..(i - 1) : rows[j].article # a].views

Keys(rows) == {rows[i].article : i \in 1..Len(rows)}

\* The groups in order of name.
NthKey(keys, n) == CHOOSE a \in keys : Cardinality({b \in keys : b < a}) = n - 1

\* The groups in order of first appearance (groupby(sort=False)).
NthSeen(rows, n) ==
    LET first(a) == CHOOSE i \in 1..Len(rows) :
                        /\ rows[i].article = a
                        /\ \A j \in 1..(i - 1) : rows[j].article # a
    IN  CHOOSE a \in Keys(rows) :
            Cardinality({b \in Keys(rows) : first(b) < first(a)}) = n - 1

groupby_first(df) ==
    LET keys == Keys(df.rows)
    IN  [columns |-> Cols,
         rows    |-> [n \in 1..Cardinality(keys) |->
                         Row(n - 1, NthKey(keys, n),
                             FirstViews(df.rows, NthKey(keys, n)))]]

groupby_unsorted(df) ==
    LET keys == Keys(df.rows)
    IN  [columns |-> Cols,
         rows    |-> [n \in 1..Cardinality(keys) |->
                         Row(n - 1, NthSeen(df.rows, n),
                             SumViews(df.rows, NthSeen(df.rows, n)))]]

\* combined_df.groupby('article')['views'].sum().reset_index(): one row per
\* article, in order of article name, labelled 0..n-1.
groupby_sum(df) ==
    LET keys == Keys(df.rows)
    IN  [columns |-> Cols,
         rows    |-> [n \in 1..Cardinality(keys) |->
                         Row(n - 1, NthKey(keys, n),
                             SumViews(df.rows, NthKey(keys, n)))]]

\* Lines 116-118.
aggregate(frames, k) == sort_values(groupby_sum(concat(frames)), k)

\* ---------------------------------------------------------------- renderer

TableRows(df) ==
    [i \in 1..Len(df.rows) |->
        [rank    |-> df.rows[i].index + 1,
         article |-> df.rows[i].article,
         views   |-> df.rows[i].views]]

generate_wiki_markup_unsorted(df, k) ==
    [raised |-> "None", table |-> TableRows(reset_index(df))]

\* Lines 26-48: sort_values raises KeyError on a frame without the column;
\* otherwise one data row per row of the sorted, relabelled frame.
generate_wiki_markup(df, k) ==
    IF "views" \notin df.columns
    THEN [raised |-> "KeyError", table |-> <<>>]
    ELSE [raised |-> "None",
          table  |-> TableRows(reset_index(sort_values(df, k)))]

\* ------------------------------------------------------------------ fetch

RECURSIVE ListsOfLen(_)
ListsOfLen(n) ==
    IF n = 0 THEN {<<>>}
    ELSE {Append(l, [article |-> a, views |-> v]) :
             l \in ListsOfLen(n - 1), a \in Articles, v \in Views}

Distinct(l) == \A i, j \in 1..Len(l) : i # j => l[i].article # l[j].article

\* What response.json()['items'][0]['articles'] can be: article names are
\* unique within a month.
ArticleLists ==
    {l \in UNION {ListsOfLen(n) : n \in 0..MaxLen} : Distinct(l)}

\* How get_most_viewed_articles ends: it returns the list, raise_for_status
\* raises HTTPError (line 22), or requests.get raises a transport error
\* (ConnectionError, Timeout: line 21).
Responses ==
    {[status |-> "ok", articles |-> l] : l \in ArticleLists}
    \cup {[status |-> s, articles |-> <<>>] : s \in {"HTTPError", "ConnectionError"}}

MonthPath(m) == <<"kuukaudet", m>>
YearPath == <<"koko_vuosi">>

NoFrame == [columns |-> {}, rows |-> <<>>]

Returned(r, none, df, sv, out) ==
    [raised |-> r, none |-> none, df |-> df, saves |-> sv, out |-> out]

process_month_truncated(m, resp, k) ==
    IF resp.status = "HTTPError"
    THEN Returned("None", TRUE, NoFrame, <<>>, << <<"fetch_error", m>> >>)
    ELSE IF resp.status # "ok"
    THEN Returned(resp.status, TRUE, NoFrame, <<>>, <<>>)
    ELSE IF "views" \notin DataFrame(resp.articles).columns
    THEN Returned("KeyError", TRUE, NoFrame, <<>>, <<>>)
    ELSE LET df == head(sort_values(DataFrame(resp.articles), k), Limit)
         IN  Returned("None", FALSE, df,
                 << [path |-> MonthPath(m),
                     content |-> generate_wiki_markup(df, k).table] >>,
                 <<>>)

process_month_no_save(m, resp, k) ==
    IF resp.status = "HTTPError"
    THEN Returned("None", TRUE, NoFrame, <<>>, << <<"fetch_error", m>> >>)
    ELSE IF resp.status # "ok"
    THEN Returned(resp.status, TRUE, NoFrame, <<>>, <<>>)
    ELSE IF "views" \notin DataFrame(resp.articles).columns
    THEN Returned("KeyError", TRUE, NoFrame, <<>>, <<>>)
    ELSE Returned("None", FALSE, sort_values(DataFrame(resp.articles), k),
                  <<>>, <<>>)

\* Lines 60-83.  Only HTTPError is caught (line 81); any other exception
\* leaves process_month.  sort_values (line 65) comes before the emptiness
\* test (line 67) and raises KeyError on a frame without a views column.
process_month(m, resp, k) ==
    IF resp.status = "HTTPError"
    THEN Returned("None", TRUE, NoFrame, <<>>, << <<"fetch_error", m>> >>)
    ELSE IF resp.status # "ok"
    THEN Returned(resp.status, TRUE, NoFrame, <<>>, <<>>)
    ELSE IF "views" \notin DataFrame(resp.articles).columns
    THEN Returned("KeyError", TRUE, NoFrame, <<>>, <<>>)
    ELSE LET df == sort_values(DataFrame(resp.articles), k)
         IN  IF empty(df)
             THEN Returned("None", TRUE, NoFrame, <<>>,
                           << <<"no_data_month", m>> >>)
             ELSE Returned("None", FALSE, df,
                      << [path |-> MonthPath(m),
                          content |-> generate_wiki_markup(head(df, Limit), k).table] >>,
                      <<>>)

\* save_to_file (lines 55-58) for each save of a call, in order.
RECURSIVE Saved(_, _)
Saved(fs, sv) ==
    IF sv = <<>> THEN fs
    ELSE Saved([p \in DOMAIN fs \cup {Head(sv).path} |->
                   IF p = Head(sv).path THEN Head(sv).content ELSE fs[p]],
               Tail(sv))

Paths(sv) == [i \in 1..Len(sv) |-> sv[i].path]

NoFiles == [p \in {} |-> <<>>]

\* ------------------------------------------------------------------- main

Init ==
    /\ kind \in Kinds
    /\ mode \in {"1", "2"}
    /\ max_month \in 1..MaxMonth
    /\ month = 1
    /\ pc = IF mode = "1" THEN "loop" ELSE "single"
    /\ all_data = <<>>
    /\ aggregated = NoFrame
    /\ files = NoFiles
    /\ stdout = <<>>
    /\ exc = "None"
    /\ fetched = <<>>
    /\ appended = <<>>
    /\ saves = <<>>
    /\ df_arg = NoFrame
    /\ markup = [raised |-> "None", table |-> <<>>]

\* One iteration of the loop of lines 108-112.
LoopBody ==
    /\ pc = "loop"
    /\ month <= max_month
    /\ \E resp \in Responses :
         LET r == process_month(month, resp, kind)
         IN  /\ fetched' = Append(fetched, [month |-> month, resp |-> resp])
             /\ stdout' = (stdout \o << <<"processing", month>> >>) \o r.out
             /\ files' = Saved(files, r.saves)
             /\ saves' = saves \o Paths(r.saves)
             /\ IF r.raised # "None"
                THEN /\ exc' = r.raised
                     /\ pc' = "raised"
                     /\ UNCHANGED <<all_data, appended, month>>
                ELSE /\ all_data' = IF r.none THEN all_data
                                    ELSE Append(all_data, r.df)
                     /\ appended' = IF r.none THEN appended
                                    ELSE Append(appended, month)
                     /\ month' = month + 1
                     /\ UNCHANGED <<exc, pc>>
    /\ UNCHANGED <<kind, mode, max_month, aggregated, df_arg, markup>>

\* Lines 114-123.
YearlyTable ==
    /\ pc = "loop"
    /\ month > max_month
    /\ all_data # <<>>
    /\ aggregated' = aggregate(all_data, kind)
    /\ LET sv == << [path |-> YearPath,
                     content |-> generate_wiki_markup(
                                     head(aggregate(all_data, kind), Limit),
                                     kind).table] >>
       IN  /\ files' = Saved(files, sv)
           /\ saves' = saves \o Paths(sv)
    /\ stdout' = Append(stdout, <<"saved_year">>)
    /\ pc' = "done"
    /\ UNCHANGED <<kind, mode, max_month, month, all_data, exc, fetched,
                   appended, df_arg, markup>>

\* Lines 124-125.
NoYearData ==
    /\ pc = "loop"
    /\ month > max_month
    /\ all_data = <<>>
    /\ stdout' = Append(stdout, <<"no_data_year">>)
    /\ pc' = "done"
    /\ UNCHANGED <<kind, mode, max_month, month, all_data, aggregated, files,
                   exc, fetched, appended, saves, df_arg, markup>>

\* Lines 128-143.
SingleMonth ==
    /\ pc = "single"
    /\ \E m \in 1..MaxMonth, resp \in Responses :
         LET r == process_month(m, resp, kind)
         IN  /\ month' = m
             /\ fetched' = Append(fetched, [month |-> m, resp |-> resp])
             /\ files' = Saved(files, r.saves)
             /\ saves' = saves \o Paths(r.saves)
             /\ exc' = r.raised
             /\ pc' = IF r.raised # "None" THEN "raised" ELSE "done"
             /\ stdout' = (stdout \o << <<"processing", m>> >>) \o r.out
                          \o (IF r.raised # "None" THEN <<>>
                              ELSE IF r.none THEN << <<"no_data_single">> >>
                              ELSE << <<"saved_month">> >>)
    /\ UNCHANGED <<kind, mode, max_month, all_data, aggregated, appended,
                   df_arg, markup>>

Next == LoopBody \/ YearlyTable \/ NoYearData \/ SingleMonth

Spec == Init /\ [][Next]_vars

\* ------------------------------------------------- the renderer on its own

\* The frames the renderer is tried on: built from record lists in any order
\* (the empty list gives the frame without columns), and the frame with the
\* columns and no rows.
Frames ==
    {DataFrame(l) : l \in UNION {ListsOfLen(n) : n \in 0..MaxRows}}
    \cup {EmptyWithColumns}

RenderInit ==
    /\ kind \in Kinds
    /\ df_arg \in Frames
    /\ pc = "render"
    /\ mode = "render"
    /\ max_month = 1
    /\ month = 1
    /\ all_data = <<>>
    /\ aggregated = NoFrame
    /\ files = NoFiles
    /\ stdout = <<>>
    /\ exc = "None"
    /\ fetched = <<>>
    /\ appended = <<>>
    /\ saves = <<>>
    /\ markup = [raised |-> "None", table |-> <<>>]

\* generate_wiki_markup(df, title).
RenderDirect ==
    /\ pc = "render"
    /\ markup' = generate_wiki_markup(df_arg, kind)
    /\ pc' = "rendered"
    /\ UNCHANGED <<kind, mode, max_month, month, all_data, aggregated, files,
                   stdout, exc, fetched, appended, saves, df_arg>>

\* generate_wiki_markup(df.head(1000), title), as at lines 77 and 121.
RenderTop ==
    /\ pc = "render"
    /\ markup' = generate_wiki_markup(head(df_arg, Limit), kind)
    /\ pc' = "rendered_top"
    /\ UNCHANGED <<kind, mode, max_month, month, all_data, aggregated, files,
                   stdout, exc, fetched, appended, saves, df_arg>>

RenderNext == RenderDirect \/ RenderTop

SpecRender == RenderInit /\ [][RenderNext]_vars

\* ------------------------------------------------------------- properties

Min(a, b) == IF a <= b THEN a ELSE b

Last(s) == s[Len(s)]

\* The ways a fetch ends in a "request failed" condition.
RequestFailed == {"HTTPError", "ConnectionError"}

\* Month number i of the run was fetched and gave at least one article.
Success(i) ==
    /\ fetched[i].resp.status = "ok"
    /\ fetched[i].resp.articles # <<>>

SuccessMonths == {i \in 1..Len(fetched) : Success(i)}

\* The views of article a in the list fetched for month number i.
MonthViews(i, a) ==
    LET l == fetched[i].resp.articles
    IN  IF Success(i) /\ \E j \in 1..Len(l) : l[j].article = a
        THEN l[CHOOSE j \in 1..Len(l) : l[j].article = a].views
        ELSE 0

RECURSIVE ViewsUpTo(_, _)
ViewsUpTo(a, n) ==
    IF n = 0 THEN 0 ELSE ViewsUpTo(a, n - 1) + MonthViews(n, a)

\* The views of article a summed over the full lists of the year's months.
TotalViews(a) == ViewsUpTo(a, Len(fetched))

\* The articles of the successfully fetched months.
FetchedArticles ==
    {a \in Articles : \E i \in SuccessMonths :
        \E j \in 1..Len(fetched[i].resp.articles) :
            fetched[i].resp.articles[j].article = a}

\* The yearly run came to its aggregation (lines 114-123).
YearDone == mode = "1" /\ pc = "done" /\ all_data # <<>>

YearlyWritten == \E i \in 1..Len(saves) : saves[i] = YearPath

\* C1: in a yearly run, a fetch that ends in a request failure (HTTP or
\* transport) only skips its month: no exception leaves main, the month adds
\* nothing, and the loop goes on to the next month.
C1_FetchFailureSkipsMonth ==
    (/\ mode = "1"
     /\ fetched # <<>>
     /\ Last(fetched).resp.status \in RequestFailed)
    => /\ exc = "None"
       /\ pc \in {"loop", "done"}
       /\ month > Last(fetched).month
       /\ MonthPath(Last(fetched).month) \notin DOMAIN files

\* C2: in a yearly run, a month whose fetch returns zero articles is skipped:
\* no exception leaves main, process_month reports no data for the month, and
\* the loop goes on.
C2_EmptyMonthSkipped ==
    (/\ mode = "1"
     /\ fetched # <<>>
     /\ Last(fetched).resp.status = "ok"
     /\ Last(fetched).resp.articles = <<>>)
    => /\ exc = "None"
       /\ pc \in {"loop", "done"}
       /\ month > Last(fetched).month
       /\ \E i \in 1..Len(stdout) :
            stdout[i] = <<"no_data_month", Last(fetched).month>>

\* C3: a yearly run in which every month 1..N failed or was empty ends by
\* reporting that no data is available and never writes the yearly file; the
\* yearly file is written only if some month was processed successfully.
C3_NoDataReported ==
    /\ (/\ mode = "1"
        /\ pc \in {"done", "raised"}
        /\ Len(fetched) = max_month
        /\ SuccessMonths = {})
       => /\ pc = "done"
          /\ Last(stdout) = <<"no_data_year">>
          /\ ~YearlyWritten
    /\ (mode = "1" /\ YearlyWritten) => SuccessMonths # {}

\* C4: the aggregated list has exactly one entry per article of the
\* successfully fetched months, and each entry's views are the sum of the
\* article's views over the months it occurs in.
C4_UnionAndSums ==
    YearDone =>
        /\ Keys(aggregated.rows) = FetchedArticles
        /\ Len(aggregated.rows) = Cardinality(FetchedArticles)
        /\ \A i \in 1..Len(aggregated.rows) :
             aggregated.rows[i].views = TotalViews(aggregated.rows[i].article)

\* An article that occurs in two months and one that occurs in one month only.
C4_Witness ==
    /\ YearDone
    /\ Cardinality(SuccessMonths) = 2
    /\ \E a, b \in FetchedArticles :
         /\ \A i \in SuccessMonths : MonthViews(i, a) > 0
         /\ Cardinality({i \in SuccessMonths : MonthViews(i, b) > 0}) = 1
         /\ \E i \in 1..Len(aggregated.rows) :
              /\ aggregated.rows[i].article = a
              /\ aggregated.rows[i].views > 3

\* The place of an article's first row in the concatenated monthly frames.
FirstAppearance(a) ==
    LET rows == concat(all_data).rows
    IN  CHOOSE i \in 1..Len(rows) :
            /\ rows[i].article = a
            /\ \A j \in 1..(i - 1) : rows[j].article # a

\* C5 as stated: the aggregated list is ordered by summed views descending,
\* and articles with equal sums are in order of first appearance across the
\* monthly inputs.
C5_TiesByFirstAppearance ==
    YearDone =>
        \A i, j \in 1..Len(aggregated.rows) :
            i < j =>
                \/ aggregated.rows[i].views > aggregated.rows[j].views
                \/ /\ aggregated.rows[i].views = aggregated.rows[j].views
                   /\ FirstAppearance(aggregated.rows[i].article)
                        < FirstAppearance(aggregated.rows[j].article)

\* C5, amended: the aggregated list is in non-increasing order of summed
\* views (nothing is promised about the order of equal sums).
C5_SortedBySummedViews ==
    YearDone =>
        \A i, j \in 1..Len(aggregated.rows) :
            i < j => aggregated.rows[i].views >= aggregated.rows[j].views

\* The sort moved a group: the first entry is not the first by name.
C5_Witness ==
    /\ YearDone
    /\ Len(aggregated.rows) = 2
    /\ aggregated.rows[1].views > aggregated.rows[2].views
    /\ aggregated.rows[1].article > aggregated.rows[2].article

\* C6: aggregating two monthly lists in either order gives the same ranked
\* list: same entries, same sums, same order, ties included.
C6_AggregationCommutes ==
    (YearDone /\ Len(all_data) = 2) =>
        aggregate(<<all_data[2], all_data[1]>>, kind) = aggregated

\* Two different months whose articles end with equal sums.
C6_Witness ==
    /\ YearDone
    /\ Len(all_data) = 2
    /\ Keys(all_data[1].rows) # Keys(all_data[2].rows)
    /\ Len(aggregated.rows) = 2
    /\ aggregated.rows[1].views = aggregated.rows[2].views

\* C7: whatever the order of the frame given to generate_wiki_markup, the
\* data rows are in non-increasing order of views, there is one per input row,
\* and the k-th row carries rank k.
C7_RowsRanked ==
    (pc = "rendered" /\ markup.raised = "None") =>
        /\ Len(markup.table) = Len(df_arg.rows)
        /\ \A i, j \in 1..Len(markup.table) :
             i < j => markup.table[i].views >= markup.table[j].views
        /\ \A n \in 1..Len(markup.table) : markup.table[n].rank = n

\* A frame of three rows given in increasing order of views.
C7_Witness ==
    /\ pc = "rendered"
    /\ markup.raised = "None"
    /\ Len(df_arg.rows) = 3
    /\ df_arg.rows[1].views < df_arg.rows[2].views
    /\ df_arg.rows[2].views < df_arg.rows[3].views
    /\ Len(markup.table) = 3

\* C8: a table rendered from the top of a list has min(len(list), limit) data
\* rows, and an empty list renders zero data rows without error.
C8_RowCount ==
    pc = "rendered_top" =>
        /\ markup.raised = "None"
        /\ Len(markup.table) = Min(Len(df_arg.rows), Limit)

\* C9: every frame that enters the yearly aggregation is its month's full
\* list, so the yearly table holds min(number of articles, limit) rows, each
\* with the article's views summed over the full monthly lists, and no
\* article left out has a larger sum than one that is in.
C9_TruncatedAfterAggregation ==
    YearDone =>
        /\ \A i \in 1..Len(all_data) :
             Len(all_data[i].rows) = Len(fetched[appended[i]].resp.articles)
        /\ Len(files[YearPath]) = Min(Cardinality(FetchedArticles), Limit)
        /\ \A i \in 1..Len(files[YearPath]) :
             /\ files[YearPath][i].article \in FetchedArticles
             /\ files[YearPath][i].views = TotalViews(files[YearPath][i].article)
             /\ \A a \in FetchedArticles :
                  (\A j \in 1..Len(files[YearPath]) :
                       files[YearPath][j].article # a)
                  => TotalViews(a) <= files[YearPath][i].views

\* The yearly table holds an article that a month's own top-limit table left
\* out, and leaves out an article that the month's table holds.
C9_Witness ==
    /\ YearDone
    /\ \E m \in SuccessMonths :
         /\ Len(fetched[m].resp.articles) > Limit
         /\ \E i \in 1..Len(files[YearPath]) :
              \A j \in 1..Len(files[MonthPath(m)]) :
                  /\ files[MonthPath(m)][j].article # files[YearPath][i].article
                  /\ MonthViews(m, files[MonthPath(m)][j].article)
                       > MonthViews(m, files[YearPath][i].article)
                  /\ MonthViews(m, files[YearPath][i].article) > 0

\* C10: in a yearly run the months with a monthly file are the months whose
\* frame is in all_data, and they are the months that were fetched with at
\* least one article; months are attempted in increasing order; the yearly
\* file is written at most once, and only after all of 1..N were attempted.
C10_FilesMatchData ==
    mode = "1" =>
        /\ {m \in 1..MaxMonth : MonthPath(m) \in DOMAIN files}
             = {appended[i] : i \in 1..Len(appended)}
        /\ {appended[i] : i \in 1..Len(appended)}
             = SuccessMonths
        /\ Len(all_data) = Len(appended)
        /\ \A i \in 1..Len(fetched) : fetched[i].month = i
        /\ Cardinality({i \in 1..Len(saves) : saves[i] = YearPath}) <= 1
        /\ YearlyWritten => (Len(fetched) = max_month /\ Last(saves) = YearPath)

\* A year with a failed month and a processed month, the yearly file written.
C10_Witness ==
    /\ mode = "1"
    /\ pc = "done"
    /\ YearlyWritten
    /\ \E i \in 1..Len(fetched) : fetched[i].resp.status = "HTTPError"
    /\ \E i \in 1..Len(fetched) : Success(i)

====
